---------------------------- MODULE Spec2Model ----------------------------
(***************************************************************************)
(* State-machine model of the idfine chat widget's real-time core:         *)
(*   - WebSocketClient (src/unnamed/part_001): the Connection Manager that *)
(*     owns the transport, the reconnect timer and the keep-alive timer;   *)
(*   - ChatWidget (src/widget/src/ChatWidget.ts): the Streaming Session    *)
(*     Controller that owns the Turn list, the stream accumulator, the     *)
(*     input-enabled state and the REST fallback with its simulated reveal.*)
(*                                                                         *)
(* JavaScript is single-threaded: every event handler, timer callback and  *)
(* promise continuation runs to completion, so each is one atomic action.  *)
(* Text is modelled as a sequence of characters so that concatenation and  *)
(* substring are computed, not assumed.                                    *)
(***************************************************************************)
EXTENDS Naturals, Sequences, FiniteSets

\* ------------------------------------------------------------------ bounds
\* Browser sockets that may be alive (not CLOSED) at the same time.
MaxSockets == 2
\* connect() calls made by an API client of WebSocketClient (SpecCM only).
MaxApiConnects == 2
\* Turns the transcript may hold.
MaxTurns == 3
\* Characters the live stream accumulator may hold.
MaxStreamLen == 5
\* Connection attempts in a row that the network lets fail (Spec only).
MaxDrops == 1
\* sendViaRest() invocations that may be in flight at the same time.
MaxRest == 1
\* Keep-alive intervals that may be left running under an overwritten handle.
MaxOrphanPings == 2
\* Keep-alive send() calls counted, transmitted or dropped.
MaxPings == 2

\* ------------------------------------------------------- program constants
\* private maxReconnectAttempts = 5
DefaultMaxReconnectAttempts == 5
\* Math.min(1000 * Math.pow(2, n), 30000)
BaseDelay == 1000
CapDelay == 30000
\* Math.floor(Math.random() * 6) + 3  is one of 3..8
MinChunk == 3
MaxChunk == 8

VARIABLES
    \* ---- WebSocketClient
    sock,                  \* readyState of each browser socket slot
    wsRef,                 \* this.ws: 0 is null, else a socket slot
    reconnectAttempts,     \* this.reconnectAttempts
    maxReconnectAttempts,  \* this.maxReconnectAttempts
    reconnectTimeout,      \* delay of the pending timer this.reconnectTimeout names, 0 if none
    orphanTimers,          \* pending reconnect timers whose handle was overwritten
    pingInterval,          \* TRUE iff this.pingInterval names a running interval
    orphanPings,           \* running ping intervals whose handle was overwritten
    attemptNo,             \* observer: timers scheduled since the last onopen
    disconnected,          \* observer: "no", or what disconnect() found: "timer" (a
                           \* reconnect timer was pending at a call) or "yes"
    apiConnects,           \* observer: connect() calls made by an API client
    pingsSent,             \* observer: pings transmitted on a socket
    sendsDropped,          \* observer: send() calls that found the socket not OPEN
    openedAfter,           \* observer: the failed attempts that preceded the latest onopen
    status,                \* text of the .idf-status element, set by onOpen / onClose
    \* ---- ChatWidget
    boot,                  \* initSession: "pending" | "done" | "failed"
    wsClient,              \* this.ws !== null (the WebSocketClient exists)
    messages,              \* this.messages
    conversationId,        \* this.conversationId
    isStreaming,           \* this.isStreaming
    currentStreamId,       \* this.currentStreamId
    currentStreamContent,  \* this.currentStreamContent
    inputDisabled,         \* sendBtn.disabled and textarea.disabled (set together)
    rest,                  \* the in-flight sendViaRest() invocations
    lastSent,              \* observer: how the latest accepted submission was dispatched
    noise,                 \* observer: "none", or whether a stream was active ("streaming")
                           \* or not ("idle") when the latest payload was dropped
    ownChunks,             \* observer: the chunks of the current stream's own id, in order
    destroyed              \* observer: destroy() has been called

cmVars == <<sock, wsRef, reconnectAttempts, maxReconnectAttempts, reconnectTimeout,
            orphanTimers, pingInterval, orphanPings, attemptNo,
            disconnected, apiConnects, pingsSent, sendsDropped, openedAfter, status>>
timerVars == <<reconnectAttempts, reconnectTimeout, orphanTimers, attemptNo>>
widgetVars == <<boot, wsClient, messages, conversationId, isStreaming, currentStreamId,
                currentStreamContent, inputDisabled, rest, lastSent, ownChunks, noise, destroyed>>
vars == <<sock, wsRef, reconnectAttempts, maxReconnectAttempts, reconnectTimeout,
          orphanTimers, pingInterval, orphanPings, attemptNo,
          disconnected, apiConnects, pingsSent, sendsDropped, openedAfter, status,
          boot, wsClient, messages, conversationId, isStreaming, currentStreamId,
          currentStreamContent, inputDisabled, rest, lastSent, ownChunks, noise, destroyed>>

\* ----------------------------------------------------------------- helpers
Min(a, b) == IF a <= b THEN a ELSE b

RECURSIVE Pow2(_)
Pow2(n) == IF n = 0 THEN 1 ELSE 2 * Pow2(n - 1)

Slots == 1..MaxSockets

\* The slot a new WebSocket(...) occupies: the lowest one whose socket is gone.
FreeSlot == CHOOSE s \in Slots : sock[s] = "CLOSED" /\ \A t \in Slots : t < s => sock[t] # "CLOSED"

HasFreeSlot == \E s \in Slots : sock[s] = "CLOSED"

\* get isConnected(): this.ws?.readyState === WebSocket.OPEN
isConnected == wsRef # 0 /\ sock[wsRef] = "OPEN"

\* ------------------------------------------------- WebSocketClient methods
\* Mutant: the delay computed from the counter after incrementing it.
BackoffDelayAfterIncrement(n) == Min(BaseDelay * Pow2(n + 1), CapDelay)

\* The delay tryReconnect computes from the counter before incrementing it.
BackoffDelay(n) == Min(BaseDelay * Pow2(n), CapDelay)

\* Mutant: tryReconnect() that gives up one attempt late.
tryReconnectOneMore ==
    IF reconnectAttempts > maxReconnectAttempts
    THEN UNCHANGED timerVars
    ELSE /\ reconnectTimeout' = BackoffDelay(reconnectAttempts)
         /\ reconnectAttempts' = reconnectAttempts + 1
         /\ attemptNo' = attemptNo + 1
         /\ orphanTimers' = IF reconnectTimeout # 0 THEN orphanTimers + 1 ELSE orphanTimers

\* tryReconnect(): give up at the maximum, else schedule connect() after the
\* backoff delay. A timer still pending under the old handle keeps running.
tryReconnect ==
    IF reconnectAttempts >= maxReconnectAttempts
    THEN UNCHANGED timerVars
    ELSE /\ reconnectTimeout' = BackoffDelay(reconnectAttempts)
         /\ reconnectAttempts' = reconnectAttempts + 1
         /\ attemptNo' = attemptNo + 1
         /\ orphanTimers' = IF reconnectTimeout # 0 THEN orphanTimers + 1 ELSE orphanTimers

\* connect(): unconditionally creates a new WebSocket and stores it in this.ws;
\* a previous socket is neither closed nor detached from its handlers.
connect ==
    /\ HasFreeSlot
    /\ sock' = [sock EXCEPT ![FreeSlot] = "CONNECTING"]
    /\ wsRef' = FreeSlot

\* ws.close() of the browser: a socket that is CONNECTING or OPEN starts closing.
CloseCall(s) == IF s # 0 /\ sock[s] \in {"CONNECTING", "OPEN"}
                THEN [sock EXCEPT ![s] = "CLOSING"]
                ELSE sock

\* Mutant: disconnect() without the clearTimeout.
disconnectKeepsTimer ==
    /\ maxReconnectAttempts' = 0
    /\ pingInterval' = FALSE
    /\ sock' = CloseCall(wsRef)
    /\ wsRef' = 0
    /\ disconnected' = IF reconnectTimeout # 0 \/ disconnected = "timer" THEN "timer" ELSE "yes"
    /\ UNCHANGED <<reconnectAttempts, reconnectTimeout, orphanTimers, orphanPings, attemptNo>>

\* Mutant: disconnect() without the stopPing.
disconnectKeepsPing ==
    /\ maxReconnectAttempts' = 0
    /\ reconnectTimeout' = 0
    /\ sock' = CloseCall(wsRef)
    /\ wsRef' = 0
    /\ disconnected' = IF reconnectTimeout # 0 \/ disconnected = "timer" THEN "timer" ELSE "yes"
    /\ UNCHANGED <<reconnectAttempts, orphanTimers, pingInterval, orphanPings, attemptNo>>

\* disconnect(): maxReconnectAttempts = 0, stopPing, clearTimeout, close, ws = null.
disconnect ==
    /\ maxReconnectAttempts' = 0
    /\ pingInterval' = FALSE
    /\ reconnectTimeout' = 0
    /\ sock' = CloseCall(wsRef)
    /\ wsRef' = 0
    /\ disconnected' = IF reconnectTimeout # 0 \/ disconnected = "timer" THEN "timer" ELSE "yes"
    /\ UNCHANGED <<reconnectAttempts, orphanTimers, orphanPings, attemptNo>>

\* --------------------------------------------------------- transport events
\* Mutant: onopen without the reset of the attempt counter.
onopenKeepsCounter(s) ==
    /\ sock[s] = "CONNECTING"
    /\ pingInterval => orphanPings < MaxOrphanPings
    /\ sock' = [sock EXCEPT ![s] = "OPEN"]
    /\ attemptNo' = 0
    /\ pingInterval' = TRUE
    /\ orphanPings' = IF pingInterval THEN orphanPings + 1 ELSE orphanPings
    /\ status' = "Cevrimici"
    /\ UNCHANGED <<wsRef, reconnectAttempts, maxReconnectAttempts, reconnectTimeout,
                   orphanTimers, disconnected, apiConnects, pingsSent, sendsDropped>>

\* ws.onopen: reconnectAttempts = 0; startPing(); onOpen().
\* startPing overwrites this.pingInterval without clearing a running interval.
onopen(s) ==
    /\ sock[s] = "CONNECTING"
    /\ pingInterval => orphanPings < MaxOrphanPings
    /\ sock' = [sock EXCEPT ![s] = "OPEN"]
    /\ reconnectAttempts' = 0
    /\ attemptNo' = 0
    /\ pingInterval' = TRUE
    /\ orphanPings' = IF pingInterval THEN orphanPings + 1 ELSE orphanPings
    /\ status' = "Cevrimici"
    /\ UNCHANGED <<wsRef, maxReconnectAttempts, reconnectTimeout, orphanTimers,
                   disconnected, apiConnects, pingsSent, sendsDropped>>

\* The open event of socket s.
SocketOpen(s) ==
    /\ onopen(s)
    /\ UNCHANGED openedAfter
    /\ UNCHANGED widgetVars

\* The same event with the count of the failed attempts before it kept
\* (SpecConn).
ObservedSocketOpen(s) ==
    /\ onopen(s)
    /\ openedAfter' = reconnectAttempts
    /\ UNCHANGED widgetVars

\* Mutant: a close event that re-enables the input.
SocketCloseEnablesInput(s) ==
    /\ sock[s] # "CLOSED"
    /\ sock' = [sock EXCEPT ![s] = "CLOSED"]
    /\ pingInterval' = FALSE
    /\ status' = "Baglaniyor..."
    /\ tryReconnect
    /\ inputDisabled' = FALSE
    /\ UNCHANGED <<wsRef, maxReconnectAttempts, orphanPings, disconnected, apiConnects,
                   pingsSent, sendsDropped, openedAfter>>
    /\ UNCHANGED <<boot, wsClient, messages, conversationId, isStreaming, currentStreamId,
                   currentStreamContent, rest, lastSent, ownChunks, noise, destroyed>>

\* ws.onclose (a failed attempt, a dropped connection or the end of a closing
\* handshake): stopPing(); onClose(); tryReconnect().
SocketClose(s) ==
    /\ sock[s] # "CLOSED"
    /\ sock' = [sock EXCEPT ![s] = "CLOSED"]
    /\ pingInterval' = FALSE
    /\ status' = "Baglaniyor..."
    /\ tryReconnect
    /\ UNCHANGED <<wsRef, maxReconnectAttempts, orphanPings, disconnected, apiConnects,
                   pingsSent, sendsDropped, openedAfter>>
    /\ UNCHANGED widgetVars

\* Mutant: the reconnect timer fires without calling connect().
ReconnectFireIdle ==
    /\ reconnectTimeout # 0
    /\ reconnectTimeout' = 0
    /\ UNCHANGED <<sock, wsRef, reconnectAttempts, maxReconnectAttempts, orphanTimers,
                   pingInterval, orphanPings, attemptNo, disconnected, apiConnects,
                   pingsSent, sendsDropped, openedAfter, status>>
    /\ UNCHANGED widgetVars

\* The reconnect timer named by this.reconnectTimeout fires: connect().
ReconnectFire ==
    /\ reconnectTimeout # 0
    /\ reconnectTimeout' = 0
    /\ connect
    /\ UNCHANGED <<reconnectAttempts, maxReconnectAttempts, orphanTimers, pingInterval,
                   orphanPings, attemptNo, disconnected, apiConnects, pingsSent,
                   sendsDropped, openedAfter,
                   status>>
    /\ UNCHANGED widgetVars

\* A reconnect timer whose handle was overwritten fires: connect().
OrphanReconnectFire ==
    /\ orphanTimers > 0
    /\ orphanTimers' = orphanTimers - 1
    /\ connect
    /\ UNCHANGED <<reconnectAttempts, maxReconnectAttempts, reconnectTimeout, pingInterval,
                   orphanPings, attemptNo, disconnected, apiConnects, pingsSent,
                   sendsDropped, openedAfter,
                   status>>
    /\ UNCHANGED widgetVars

\* ------------------------------------- WebSocketClient driven by an API client
\* A client of the class calls connect().
ApiConnect ==
    /\ apiConnects < MaxApiConnects
    /\ apiConnects' = apiConnects + 1
    /\ connect
    /\ UNCHANGED <<reconnectAttempts, maxReconnectAttempts, reconnectTimeout, orphanTimers,
                   pingInterval, orphanPings, attemptNo, disconnected, pingsSent,
                   sendsDropped, openedAfter,
                   status>>
    /\ UNCHANGED widgetVars

\* A client of the class calls disconnect().
ApiDisconnect ==
    /\ disconnect
    /\ UNCHANGED <<apiConnects, pingsSent, sendsDropped, openedAfter, status>>
    /\ UNCHANGED widgetVars

\* Mutant: send() that transmits whatever the state of the socket.
sendUnguarded ==
    /\ pingsSent' = pingsSent + 1
    /\ UNCHANGED sendsDropped

\* send(message): transmitted if this.ws is OPEN, else dropped; nothing is kept.
send ==
    IF isConnected
    THEN pingsSent' = pingsSent + 1 /\ UNCHANGED sendsDropped
    ELSE sendsDropped' = sendsDropped + 1 /\ UNCHANGED pingsSent

\* A tick of a keep-alive interval, the one this.pingInterval names or one left
\* running: send({type: "ping"}), which transmits only if this.ws is OPEN.
PingTick ==
    /\ pingInterval \/ orphanPings > 0
    /\ pingsSent + sendsDropped < MaxPings
    /\ send
    /\ UNCHANGED <<sock, wsRef, reconnectAttempts, maxReconnectAttempts, reconnectTimeout,
                   orphanTimers, pingInterval, orphanPings, attemptNo, disconnected,
                   apiConnects, openedAfter, status>>
    /\ UNCHANGED widgetVars

\* ------------------------------------------------------------- ChatWidget
\* Texts, as sequences of characters.
He == <<"H", "e">>
llo == <<"l", "l", "o">>
Hello == <<"H", "e", "l", "l", "o">>
Ok == <<"o", "k">>
Hi == <<"h", "i">>
\* config.welcomeMessage, data.message of an error signal, data.content of a
\* system signal and the fixed apology of the fallback path, each one token.
WelcomeText == <<"Merhaba! Size nasil yardimci olabilirim?">>
ErrorText == <<"server error">>
SystemText == <<"agent joined">>
ApologyText == <<"Baglanti hatasi olustu. Lutfen tekrar deneyin.">>

\* What the user may have typed when a send event fires.
Typed == {<<>>, <<" ">>, Hi, <<" ">> \o Hi}
MessageIds == {"m1", "m2"}
Chunks == {He, llo}
ConversationIds == {"", "c1"}

\* String.prototype.trim() on the texts above: leading and trailing blanks go.
RECURSIVE TrimLeft(_)
TrimLeft(t) == IF t # <<>> /\ Head(t) = " " THEN TrimLeft(Tail(t)) ELSE t

RECURSIVE TrimRight(_)
TrimRight(t) == IF t # <<>> /\ t[Len(t)] = " " THEN TrimRight(SubSeq(t, 1, Len(t) - 1)) ELSE t

Trim(t) == TrimRight(TrimLeft(t))

\* Date.now().toString(): a fresh local identifier, one per Turn position.
LocalId == <<"t1", "t2", "t3", "t4", "t5", "t6", "t7", "t8">>[Len(messages) + 1]

\* A ChatMessage; sources and intent are absent until a finalize attaches them.
Turn(id, role, content, streaming) ==
    [id |-> id, role |-> role, content |-> content, sources |-> "undefined",
     intent |-> "undefined", isStreaming |-> streaming]

\* this.messages.find((m) => m.id === id): the index of the first match, 0 if none.
FindIndex(id) ==
    IF \E k \in 1..Len(messages) : messages[k].id = id
    THEN CHOOSE k \in 1..Len(messages) :
            /\ messages[k].id = id
            /\ \A j \in 1..(k - 1) : messages[j].id # id
    ELSE 0

\* Mutant: a finalize that leaves the accumulating flag set.
FinalizedKeepsFlag(msgs, k, content, sources, intent) ==
    IF k = 0 THEN msgs
    ELSE [msgs EXCEPT ![k] = [@ EXCEPT !.content = content, !.sources = sources,
                                       !.intent = intent]]

\* The stored Turn a finalize writes: content, sources, intent, flag cleared.
Finalized(msgs, k, content, sources, intent) ==
    IF k = 0 THEN msgs
    ELSE [msgs EXCEPT ![k] = [@ EXCEPT !.content = content, !.sources = sources,
                                       !.intent = intent, !.isStreaming = FALSE]]

\* finalizeMessage(messageId, sources, intent): the first Turn with that id, if
\* any, takes the accumulated stream text.
finalizeMessage(messageId, sources, intent) ==
    Finalized(messages, FindIndex(messageId), currentStreamContent, sources, intent)

\* What a stream_chunk leaves in the accumulator: the delta is appended whatever
\* message_id it carries.
ChunkAppended(id, delta) == currentStreamContent \o delta

\* updateStreamingMessage(messageId, content): the content updates it emits, one
\* showing content if an element msg-<messageId> exists (addMessage creates one
\* for every Turn), none otherwise.
updateStreamingMessage(messageId, content) ==
    IF FindIndex(messageId) # 0
    THEN <<[id |-> messageId, shown |-> content]>>
    ELSE <<>>

\* The inbound signals a server may send over an open socket.
Inbound ==
    [type : {"stream_start"}, message_id : MessageIds]
    \cup [type : {"stream_chunk"}, message_id : MessageIds, content : Chunks]
    \cup [type : {"stream_end"}, message_id : MessageIds, conversation_id : ConversationIds,
          sources : {"[]"}, intent : {"faq"}]
    \cup [type : {"error"}, message : {ErrorText}]
    \cup [type : {"system"}, content : {SystemText}]

\* Mutant: a payload that is not handled is surfaced as an error Turn.
IgnoredWithErrorTurn ==
    /\ Len(messages) < MaxTurns
    /\ messages' = Append(messages, Turn(LocalId, "assistant", ErrorText, FALSE))
    /\ UNCHANGED <<conversationId, isStreaming, currentStreamId, currentStreamContent,
                   inputDisabled>>

\* What is left of a payload no case of the switch takes (there is no default
\* case) or that throws in JSON.parse or in the handler (the empty catch of
\* onmessage): nothing.
Ignored ==
    UNCHANGED <<messages, conversationId, isStreaming, currentStreamId,
                currentStreamContent, inputDisabled>>

\* handleWSMessage(data)
handleWSMessage(data) ==
    CASE data.type = "stream_start" ->
            /\ Len(messages) < MaxTurns
            /\ isStreaming' = TRUE
            /\ currentStreamId' = data.message_id
            /\ currentStreamContent' = <<>>
            /\ messages' = Append(messages, Turn(data.message_id, "assistant", <<>>, TRUE))
            /\ UNCHANGED <<conversationId, inputDisabled>>
      [] data.type = "stream_chunk" ->
            /\ Len(currentStreamContent) + Len(data.content) <= MaxStreamLen
            /\ currentStreamContent' = ChunkAppended(data.message_id, data.content)
            /\ UNCHANGED <<messages, conversationId, isStreaming, currentStreamId,
                           inputDisabled>>
      [] data.type = "stream_end" ->
            /\ isStreaming' = FALSE
            /\ conversationId' = IF data.conversation_id # "" THEN data.conversation_id
                                 ELSE conversationId
            /\ messages' = finalizeMessage(data.message_id, data.sources, data.intent)
            /\ inputDisabled' = FALSE
            /\ UNCHANGED <<currentStreamId, currentStreamContent>>
      [] data.type = "error" ->
            /\ Len(messages) < MaxTurns
            /\ isStreaming' = FALSE
            /\ messages' = Append(messages, Turn(LocalId, "assistant", data.message, FALSE))
            /\ inputDisabled' = FALSE
            /\ UNCHANGED <<conversationId, currentStreamId, currentStreamContent>>
      [] data.type = "system" ->
            /\ Len(messages) < MaxTurns
            /\ messages' = Append(messages, Turn(LocalId, "system", data.content, FALSE))
            /\ UNCHANGED <<conversationId, isStreaming, currentStreamId,
                           currentStreamContent, inputDisabled>>
      [] OTHER -> Ignored

\* The observer of the stream: the concatenation of the chunks that carried the
\* message_id of the latest stream_start.
OwnChunksAfter(data) ==
    CASE data.type = "stream_start" -> <<>>
      [] data.type = "stream_chunk" /\ data.message_id = currentStreamId ->
            ownChunks \o data.content
      [] OTHER -> ownChunks

\* ws.onmessage of socket s: JSON.parse, then onMessage(data) = handleWSMessage.
\* The browser delivers messages only while the socket is OPEN.
SocketMessage(s, data) ==
    /\ wsClient
    /\ sock[s] = "OPEN"
    /\ handleWSMessage(data)
    /\ UNCHANGED <<boot, wsClient, rest, lastSent, ownChunks, noise, destroyed>>
    /\ UNCHANGED cmVars

\* The same delivery with the stream observer kept (SpecObs).
ObservedSocketMessage(s, data) ==
    /\ wsClient
    /\ sock[s] = "OPEN"
    /\ handleWSMessage(data)
    /\ ownChunks' = OwnChunksAfter(data)
    /\ UNCHANGED <<boot, wsClient, rest, lastSent, noise, destroyed>>
    /\ UNCHANGED cmVars

\* Payloads that are no signal of the protocol: text that is not JSON, JSON
\* null (reading data.type throws), and objects with a type no case handles
\* (the server's answer to a ping among them).
NoisePayloads ==
    {[json |-> "SyntaxError", type |-> "undefined"],
     [json |-> "null", type |-> "TypeError"],
     [json |-> "object", type |-> "pong"],
     [json |-> "object", type |-> "typing"]}

\* ws.onmessage of socket s for such a payload: JSON.parse or the handler throws
\* into the empty catch, or the handler runs and no case matches.
SocketNoise(s, payload) ==
    /\ wsClient
    /\ sock[s] = "OPEN"
    /\ IF payload.json = "object" THEN handleWSMessage(payload) ELSE Ignored
    /\ noise' = IF isStreaming THEN "streaming" ELSE "idle"
    /\ UNCHANGED <<boot, wsClient, rest, lastSent, ownChunks, destroyed>>
    /\ UNCHANGED cmVars

RestSlots == 1..MaxRest

HasFreeRest == \E r \in RestSlots : rest[r].pc = "idle"

FreeRest == CHOOSE r \in RestSlots : rest[r].pc = "idle" /\ \A q \in RestSlots : q < r => rest[q].pc # "idle"

\* The guard at the head of sendMessage: empty input or a live stream rejects.
Rejects(content) == content = <<>> \/ isStreaming

\* Mutant: the live path chosen whenever the client exists.
UseLiveWheneverClient == wsClient

\* this.ws?.isConnected: the client exists and its socket is OPEN.
UseLive == wsClient /\ isConnected

\* sendMessage(), fired by the send button or the Enter key; neither event
\* fires while the controls are disabled.
sendMessage(typed) ==
    /\ ~inputDisabled
    /\ IF Rejects(Trim(typed))
       THEN UNCHANGED vars
       ELSE /\ Len(messages) < MaxTurns
            /\ messages' = Append(messages, Turn(LocalId, "user", Trim(typed), FALSE))
            /\ inputDisabled' = TRUE
            /\ IF UseLive
               THEN /\ lastSent' = [path |-> "live", conv |-> conversationId]
                    /\ UNCHANGED rest
               ELSE /\ HasFreeRest
                    /\ lastSent' = [path |-> "rest", conv |-> conversationId]
                    /\ rest' = [rest EXCEPT ![FreeRest] = [pc |-> "fetching"]]
            /\ UNCHANGED <<boot, wsClient, conversationId, isStreaming, currentStreamId,
                           currentStreamContent, ownChunks, noise, destroyed>>
            /\ UNCHANGED cmVars

\* The responses the fallback request may get. A successful one carries the
\* reply; message_id "" stands for an absent message_id.
RestReplies ==
    [conversation_id : {"c1"}, message_id : {"", "m1"}, content : {Ok, Hello},
     sources : {"[]"}, intent : {"faq"}]

\* sendViaRest after a response whose JSON body holds the reply: the
\* conversation id is stored and the streaming-style Turn is appended; the
\* reveal interval starts at i = 0; ticks counts its callbacks (an observer).
RestResponse(r, data) ==
    /\ rest[r].pc = "fetching"
    /\ Len(messages) < MaxTurns
    /\ conversationId' = data.conversation_id
    /\ LET msgId == IF data.message_id # "" THEN data.message_id ELSE LocalId
       IN /\ messages' = Append(messages, Turn(msgId, "assistant", <<>>, TRUE))
          /\ rest' = [rest EXCEPT ![r] = [pc |-> "revealing", msgId |-> msgId,
                                          fullText |-> data.content, i |-> 0, ticks |-> 0,
                                          sources |-> data.sources, intent |-> data.intent]]
    /\ UNCHANGED <<boot, wsClient, isStreaming, currentStreamId, currentStreamContent,
                   inputDisabled, lastSent, ownChunks, noise, destroyed>>
    /\ UNCHANGED cmVars

\* sendViaRest when fetch() or response.json() rejects: the catch block appends
\* the apology Turn and the finally block re-enables the input.
RestFailure(r) ==
    /\ rest[r].pc = "fetching"
    /\ Len(messages) < MaxTurns
    /\ messages' = Append(messages, Turn(LocalId, "assistant", ApologyText, FALSE))
    /\ inputDisabled' = FALSE
    /\ rest' = [rest EXCEPT ![r] = [pc |-> "idle"]]
    /\ UNCHANGED <<boot, wsClient, conversationId, isStreaming, currentStreamId,
                   currentStreamContent, lastSent, ownChunks, noise, destroyed>>
    /\ UNCHANGED cmVars

\* sendViaRest after a response whose JSON body holds no reply (an HTTP error
\* status with a JSON error body: response.ok is never looked at): the
\* conversation id becomes undefined, the streaming-style Turn is appended, and
\* every tick of the reveal interval throws on fullText.length, so the promise
\* never resolves and neither the code after the await nor finally ever runs.
RestBadBody(r) ==
    /\ rest[r].pc = "fetching"
    /\ Len(messages) < MaxTurns
    /\ conversationId' = "undefined"
    /\ messages' = Append(messages, Turn(LocalId, "assistant", <<>>, TRUE))
    /\ rest' = [rest EXCEPT ![r] = [pc |-> "broken"]]
    /\ UNCHANGED <<boot, wsClient, isStreaming, currentStreamId, currentStreamContent,
                   inputDisabled, lastSent, ownChunks, noise, destroyed>>
    /\ UNCHANGED cmVars

\* Mutant: the last tick stores the text revealed so far, not the whole reply.
RevealTickStoresPrefix(r, chunkSize) ==
    /\ rest[r].pc = "revealing"
    /\ LET i == rest[r].i + chunkSize
       IN IF i >= Len(rest[r].fullText)
          THEN /\ messages' = Finalized(messages, FindIndex(rest[r].msgId),
                                        SubSeq(rest[r].fullText, 1, rest[r].i),
                                        rest[r].sources, rest[r].intent)
               /\ inputDisabled' = FALSE
               /\ rest' = [rest EXCEPT ![r] = [pc |-> "idle"]]
          ELSE /\ rest' = [rest EXCEPT ![r] = [@ EXCEPT !.i = i, !.ticks = @ + 1]]
               /\ UNCHANGED <<messages, inputDisabled>>
    /\ UNCHANGED <<boot, wsClient, conversationId, isStreaming, currentStreamId,
                   currentStreamContent, lastSent, ownChunks, noise, destroyed>>
    /\ UNCHANGED cmVars

\* Mutant: a tick that restarts the count instead of adding to it.
RevealTickRestarts(r, chunkSize) ==
    /\ rest[r].pc = "revealing"
    /\ LET i == chunkSize
       IN IF i >= Len(rest[r].fullText)
          THEN /\ messages' = Finalized(messages, FindIndex(rest[r].msgId), rest[r].fullText,
                                        rest[r].sources, rest[r].intent)
               /\ inputDisabled' = FALSE
               /\ rest' = [rest EXCEPT ![r] = [pc |-> "idle"]]
          ELSE /\ rest' = [rest EXCEPT ![r] = [@ EXCEPT !.i = i, !.ticks = @ + 1]]
               /\ UNCHANGED <<messages, inputDisabled>>
    /\ UNCHANGED <<boot, wsClient, conversationId, isStreaming, currentStreamId,
                   currentStreamContent, lastSent, ownChunks, noise, destroyed>>
    /\ UNCHANGED cmVars

\* One tick of the reveal interval with chunkSize drawn from 3..8. The tick that
\* reaches the end clears the interval and resolves the promise; the code after
\* the await (store the Turn) and the finally block run before any other event.
RevealTick(r, chunkSize) ==
    /\ rest[r].pc = "revealing"
    /\ LET i == rest[r].i + chunkSize
       IN IF i >= Len(rest[r].fullText)
          THEN /\ messages' = Finalized(messages, FindIndex(rest[r].msgId), rest[r].fullText,
                                        rest[r].sources, rest[r].intent)
               /\ inputDisabled' = FALSE
               /\ rest' = [rest EXCEPT ![r] = [pc |-> "idle"]]
          ELSE /\ rest' = [rest EXCEPT ![r] = [@ EXCEPT !.i = i, !.ticks = @ + 1]]
               /\ UNCHANGED <<messages, inputDisabled>>
    /\ UNCHANGED <<boot, wsClient, conversationId, isStreaming, currentStreamId,
                   currentStreamContent, lastSent, ownChunks, noise, destroyed>>
    /\ UNCHANGED cmVars

\* connectWS(): this.ws = new WebSocketClient(...); this.ws.connect().
connectWS ==
    /\ wsClient' = TRUE
    /\ connect

\* initSession() after the bootstrap response: the welcome Turn, then connectWS().
BootResponse ==
    /\ boot = "pending"
    /\ Len(messages) < MaxTurns
    /\ boot' = "done"
    /\ messages' = Append(messages, Turn("welcome", "assistant", WelcomeText, FALSE))
    /\ connectWS
    /\ UNCHANGED <<conversationId, isStreaming, currentStreamId, currentStreamContent,
                   inputDisabled, rest, lastSent, ownChunks, noise, destroyed>>
    /\ UNCHANGED <<reconnectAttempts, maxReconnectAttempts, reconnectTimeout, orphanTimers,
                   pingInterval, orphanPings, attemptNo, disconnected,
                   apiConnects, pingsSent, sendsDropped, openedAfter, status>>

\* initSession() when the bootstrap call fails: logged, nothing else.
BootFailure ==
    /\ boot = "pending"
    /\ boot' = "failed"
    /\ UNCHANGED <<wsClient, messages, conversationId, isStreaming, currentStreamId,
                   currentStreamContent, inputDisabled, rest, lastSent, ownChunks, noise, destroyed>>
    /\ UNCHANGED cmVars

\* destroy(): this.ws?.disconnect().
destroy ==
    /\ destroyed' = TRUE
    /\ IF wsClient
       THEN disconnect /\ UNCHANGED <<apiConnects, pingsSent, sendsDropped, openedAfter, status>>
       ELSE UNCHANGED cmVars
    /\ UNCHANGED <<boot, wsClient, messages, conversationId, isStreaming, currentStreamId,
                   currentStreamContent, inputDisabled, rest, lastSent, ownChunks, noise>>

InitCM ==
    /\ sock = [s \in Slots |-> "CLOSED"]
    /\ wsRef = 0
    /\ reconnectAttempts = 0
    /\ maxReconnectAttempts = DefaultMaxReconnectAttempts
    /\ reconnectTimeout = 0
    /\ orphanTimers = 0
    /\ pingInterval = FALSE
    /\ orphanPings = 0
    /\ attemptNo = 0
    /\ disconnected = "no"
    /\ apiConnects = 0
    /\ pingsSent = 0
    /\ sendsDropped = 0
    /\ openedAfter = 0
    /\ status = "Cevrimici"

InitWidget ==
    /\ boot = "pending"
    /\ wsClient = FALSE
    /\ messages = <<>>
    /\ conversationId = ""
    /\ isStreaming = FALSE
    /\ currentStreamId = ""
    /\ currentStreamContent = <<>>
    /\ inputDisabled = FALSE
    /\ rest = [r \in 1..MaxRest |-> [pc |-> "idle"]]
    /\ lastSent = [path |-> "none", conv |-> ""]
    /\ ownChunks = <<>>
    /\ noise = "none"
    /\ destroyed = FALSE

Init == InitCM /\ InitWidget

\* The Connection Manager on its own, constructed and driven through its public
\* methods by any client of the class.
NextCM ==
    \/ ApiConnect
    \/ ApiDisconnect
    \/ \E s \in Slots : SocketOpen(s)
    \/ \E s \in Slots : SocketClose(s)
    \/ ReconnectFire
    \/ OrphanReconnectFire
    \/ PingTick

SpecCM == Init /\ [][NextCM]_vars

\* The widget's use of its Connection Manager, without the conversation: the
\* bootstrap creates and connects the client, destroy() disconnects it, the
\* network opens and closes sockets, the reconnect timer fires. No action of the
\* conversation writes a variable of the Connection Manager.
NextConn ==
    \/ BootResponse
    \/ BootFailure
    \/ destroy
    \/ \E s \in Slots : ObservedSocketOpen(s)
    \/ \E s \in Slots : SocketClose(s)
    \/ ReconnectFire
    \/ PingTick

SpecConn == Init /\ [][NextConn]_vars

\* The same, with the browser's timer service: a pending setTimeout callback
\* is eventually run unless it is cleared.
SpecConnFair == SpecConn /\ WF_vars(ReconnectFire)

\* A close event in the full widget: the end of a closing handshake, or a drop
\* or failed attempt the network produces, at most MaxDrops in a row.
SocketDrop(s) ==
    /\ sock[s] = "CLOSING" \/ reconnectAttempts < MaxDrops
    /\ SocketClose(s)

\* The widget: the page constructs it, the user types and sends, the server and
\* the network act on the sockets, timers fire. Keep-alive ticks write only the
\* ping observer, which no action reads, and are left to SpecConn and SpecCM.
WidgetStep ==
    \/ BootResponse
    \/ BootFailure
    \/ \E typed \in Typed : sendMessage(typed)
    \/ \E r \in RestSlots, data \in RestReplies : RestResponse(r, data)
    \/ \E r \in RestSlots : RestFailure(r)
    \/ \E r \in RestSlots : RestBadBody(r)
    \/ \E r \in RestSlots, n \in MinChunk..MaxChunk : RevealTick(r, n)
    \/ destroy
    \/ \E s \in Slots : SocketOpen(s)
    \/ \E s \in Slots : SocketDrop(s)
    \/ ReconnectFire

Next ==
    \/ WidgetStep
    \/ \E s \in Slots, data \in Inbound : SocketMessage(s, data)

Spec == Init /\ [][Next]_vars

\* The signals of a server that starts no stream over the socket.
Notices == {d \in Inbound : d.type \in {"stream_end", "error", "system"}}

\* The widget answered on the fallback path: the server starts no stream over
\* the socket, while a stream_end, an error or a system notice may still arrive
\* at any time, a reveal in progress included.
NextFallback ==
    \/ WidgetStep
    \/ \E s \in Slots, data \in Notices : SocketMessage(s, data)

\* With the browser's timer service: while a reveal interval runs, its callback
\* is eventually run again.
SpecFallbackFair ==
    /\ Init
    /\ [][NextFallback]_vars
    /\ WF_vars(\E r \in RestSlots, n \in MinChunk..MaxChunk : RevealTick(r, n))

\* The inbound side of the widget with a server that also sends payloads that
\* are no signal of the protocol.
NextNoise ==
    \/ BootResponse
    \/ \E s \in Slots : SocketOpen(s)
    \/ \E s \in Slots, data \in Inbound : SocketMessage(s, data)
    \/ \E s \in Slots, payload \in NoisePayloads : SocketNoise(s, payload)

SpecNoise == Init /\ [][NextNoise]_vars

\* Fallback replies long enough for a reveal of several ticks.
LongReplies ==
    [conversation_id : {"c1"}, message_id : {""}, content : {Hello \o Ok, Hello \o Hello},
     sources : {"[]"}, intent : {"faq"}]

\* The widget answered on the fallback path, with the longer replies too.
NextReveal ==
    \/ NextFallback
    \/ \E r \in RestSlots, data \in LongReplies : RestResponse(r, data)

SpecRevealFair ==
    /\ Init
    /\ [][NextReveal]_vars
    /\ WF_vars(\E r \in RestSlots, n \in MinChunk..MaxChunk : RevealTick(r, n))

\* The widget with the stream observer kept on every inbound signal.
NextObs ==
    \/ WidgetStep
    \/ \E s \in Slots, data \in Inbound : ObservedSocketMessage(s, data)

SpecObs == Init /\ [][NextObs]_vars

\* ================================================================ claims
\* Indices of the user Turns, of the assistant Turns that are terminal (a
\* finalized reply or an error Turn; the welcome Turn answers no submission), and
\* of the Turns whose accumulating flag is set.
UserTurns == {k \in 1..Len(messages) : messages[k].role = "user"}
ReplyTurns == {k \in 1..Len(messages) :
                /\ messages[k].role = "assistant"
                /\ messages[k].id # "welcome"
                /\ ~messages[k].isStreaming}
Accumulating == {k \in 1..Len(messages) : messages[k].isStreaming}

\* Nothing is left that could still deliver a reply: the bootstrap has ended, no
\* fallback request is awaited and no reveal can advance, no socket is alive and
\* no reconnect timer is pending.
Quiescent ==
    /\ boot # "pending"
    /\ \A r \in RestSlots : rest[r].pc \in {"idle", "broken"}
    /\ \A s \in Slots : sock[s] = "CLOSED"
    /\ reconnectTimeout = 0
    /\ orphanTimers = 0

\* C1: every accepted submission ends with exactly one terminal assistant Turn
\* (finalized or error), never zero and never more than one; stated on the
\* final result: once nothing more can arrive, the terminal assistant Turns are
\* as many as the accepted submissions.
C1_ExactlyOneReply == Quiescent => Cardinality(ReplyTurns) = Cardinality(UserTurns)

StreamEnds == {d \in Inbound : d.type = "stream_end"}

\* C2: when the stream_end of the active stream's message_id arrives, the Turn
\* it finalizes holds exactly the concatenation, in arrival order, of the
\* chunks that carried that message_id since its stream_start, whatever other
\* signals came in between.
C2_FinalContentIsOwnChunks ==
    [][\A s \in Slots, d \in StreamEnds :
          (/\ isStreaming
           /\ d.message_id = currentStreamId
           /\ FindIndex(d.message_id) # 0
           /\ ObservedSocketMessage(s, d))
          => messages'[FindIndex(d.message_id)].content = ownChunks]_vars

\* C3: a stream_chunk or stream_end whose message_id is not that of the active
\* stream changes neither the Turn list, nor the accumulated text, nor the
\* streaming flag, nor the input-enabled state.
C3_UnknownIdIgnored ==
    [][\A s \in Slots, d \in Inbound :
          (/\ d.type \in {"stream_chunk", "stream_end"}
           /\ ~(isStreaming /\ d.message_id = currentStreamId)
           /\ SocketMessage(s, d))
          => UNCHANGED <<messages, currentStreamContent, isStreaming, inputDisabled>>]_vars

\* C4: a send made while an assistant Turn is still accumulating is rejected:
\* no Turn is appended, nothing is dispatched on either path.
C4_SubmitRejectedWhileStreaming ==
    [][\A typed \in Typed :
          (Accumulating # {} /\ sendMessage(typed))
          => UNCHANGED <<messages, rest, lastSent>>]_vars

\* C5: at most one Turn has its accumulating flag set.
C5_AtMostOneStreamingTurn == Cardinality(Accumulating) <= 1

\* C6: once disconnect() has been called, no reconnect timer is pending and no
\* socket is connecting or open: a timer pending at the call is cancelled and
\* the close event of the closed socket schedules nothing.
C6_NoReopenAfterDisconnect ==
    disconnected # "no" =>
        /\ reconnectTimeout = 0
        /\ orphanTimers = 0
        /\ \A s \in Slots : sock[s] \in {"CLOSING", "CLOSED"}

\* C6 witness: disconnect() was called while a reconnect timer was pending,
\* after at least one failed attempt, and every socket is gone.
C6_TimerCancelled ==
    /\ disconnected = "timer"
    /\ reconnectAttempts >= 1
    /\ \A s \in Slots : sock[s] = "CLOSED"

\* C7: a connect() call made after disconnect() opens no transport and changes
\* nothing.
C7_ConnectAfterDisconnectIsNoop ==
    [][(disconnected # "no" /\ ApiConnect) => UNCHANGED <<sock, wsRef>>]_vars

\* C8: after destroy() has shut the Connection Manager down, no assistant Turn
\* is appended, updated or finalized.
C8_NoTurnActivityAfterShutdown ==
    [][disconnected # "no" =>
          SelectSeq(messages', LAMBDA m : m.role = "assistant")
            = SelectSeq(messages, LAMBDA m : m.role = "assistant")]_vars

\* C9: a connect() call made while the current transport is connecting or open
\* opens no further transport.
C9_ConnectIdempotent ==
    [][(/\ wsRef # 0
        /\ sock[wsRef] \in {"CONNECTING", "OPEN"}
        /\ ApiConnect)
       => UNCHANGED <<sock, wsRef>>]_vars

\* C10: whenever a reconnect is scheduled as the N-th attempt since the last
\* successful open, its timer is set min(base * 2^(N-1), cap) ms ahead.
C10_BackoffDelay ==
    [][attemptNo' = attemptNo + 1 =>
          reconnectTimeout' = Min(BaseDelay * Pow2(attemptNo' - 1), CapDelay)]_vars

\* C10 witness: the fifth attempt in a row is scheduled, 16000 ms ahead.
C10_FifthAttempt == attemptNo = 5 /\ reconnectTimeout = 16000

\* C11: a successful open resets the attempt counter to 0, and the first
\* reconnect scheduled when a connection that had opened drops is set the base
\* delay ahead, however many failed attempts preceded that open.
C11_OpenResetsBackoff ==
    [][\A s \in Slots :
          /\ ObservedSocketOpen(s) => reconnectAttempts' = 0
          /\ (sock[s] = "OPEN" /\ SocketClose(s) /\ attemptNo' = attemptNo + 1)
             => reconnectTimeout' = BaseDelay]_vars

\* C11 witness: a connection that opened after three failed attempts has
\* dropped, and its first reconnect is pending the base delay ahead.
C11_BaseDelayAfterFailures ==
    /\ openedAfter = 3
    /\ attemptNo = 1
    /\ reconnectTimeout = BaseDelay
    /\ \A s \in Slots : sock[s] = "CLOSED"
\* C12: reconnection is abandoned at the maximum: no more than 5 reconnects are
\* scheduled between two opens, the attempt counter never exceeds 5, and the
\* close event that ends the fifth failed attempt in a row schedules nothing.
C12_AbandonedAtMaximum ==
    [][/\ attemptNo' <= DefaultMaxReconnectAttempts
       /\ reconnectAttempts' <= DefaultMaxReconnectAttempts
       /\ \A s \in Slots :
             (reconnectAttempts >= DefaultMaxReconnectAttempts /\ SocketClose(s))
             => UNCHANGED <<reconnectTimeout, orphanTimers, attemptNo>>]_vars

\* C12 witness: five attempts in a row have failed without a shutdown, and
\* neither a socket nor a timer is left.
C12_GaveUp ==
    /\ disconnected = "no"
    /\ reconnectAttempts = DefaultMaxReconnectAttempts
    /\ attemptNo = DefaultMaxReconnectAttempts
    /\ reconnectTimeout = 0
    /\ orphanTimers = 0
    /\ wsRef # 0
    /\ \A s \in Slots : sock[s] = "CLOSED"
\* The steps in which a transport closes with no shutdown requested and fewer
\* than the maximum number of attempts in a row made.
UnexpectedClose(s) ==
    /\ disconnected = "no"
    /\ reconnectAttempts < maxReconnectAttempts
    /\ SocketClose(s)

\* C13: when the transport closes without an explicit shutdown and fewer than
\* the maximum number of attempts in a row have been made, the status shows
\* unavailable, no keep-alive interval is left running and a reconnect timer is
\* set; and a pending reconnect timer leads to a new connection attempt unless
\* a shutdown cancels it.
C13_CloseLeadsToReconnect ==
    /\ [][\A s \in Slots :
            UnexpectedClose(s) =>
                /\ status' = "Baglaniyor..."
                /\ ~pingInterval'
                /\ orphanPings' = 0
                /\ reconnectTimeout' # 0]_vars
    /\ (reconnectTimeout # 0) ~>
            ((reconnectTimeout = 0 /\ \E s \in Slots : sock[s] = "CONNECTING")
             \/ disconnected # "no")

\* C13 witness: an open connection has dropped, the timer has fired and the new
\* attempt is connecting, the status still showing unavailable.
C13_Reconnecting ==
    /\ disconnected = "no"
    /\ pingsSent > 0
    /\ attemptNo = 1
    /\ reconnectTimeout = 0
    /\ status = "Baglaniyor..."
    /\ ~pingInterval
    /\ wsRef # 0
    /\ sock[wsRef] = "CONNECTING"
\* C14: a message goes on the wire only in a send() call made while the
\* connection is open, one per call; a call made in any other state transmits
\* nothing, and no later step (an open after a reconnect included) transmits
\* what was dropped.
C14_SendOnlyWhenOpen ==
    [][/\ pingsSent' # pingsSent =>
            (isConnected /\ pingsSent' = pingsSent + 1 /\ UNCHANGED sendsDropped)
       /\ sendsDropped' # sendsDropped =>
            (~isConnected /\ UNCHANGED pingsSent)]_vars

\* C14 witness: a send() was dropped, the connection is open now, and nothing
\* has been transmitted.
C14_DroppedNotReplayed ==
    /\ sendsDropped > 0
    /\ pingsSent = 0
    /\ isConnected
\* The fallback requests awaiting their response.
Fetching == {r \in RestSlots : rest[r].pc = "fetching"}

\* C15: an accepted submission is dispatched on exactly one path, chosen at
\* submit time: with the connection open it goes over the transport and no
\* fallback request is issued; otherwise exactly one fallback request is issued
\* and nothing goes over the transport. No other step dispatches anything.
C15_OnePathPerSubmission ==
    [][/\ \A typed \in Typed :
             (sendMessage(typed) /\ messages' # messages) =>
                IF wsClient /\ wsRef # 0 /\ sock[wsRef] = "OPEN"
                THEN lastSent'.path = "live" /\ Fetching' = Fetching
                ELSE /\ lastSent'.path = "rest"
                     /\ Cardinality(Fetching') = Cardinality(Fetching) + 1
       /\ (lastSent' # lastSent \/ ~(Fetching' \subseteq Fetching))
             => \E typed \in Typed : sendMessage(typed) /\ messages' # messages]_vars

\* C15 witness: a submission made with the connection open has gone over the
\* transport and no fallback request is in flight.
C15_SentLive ==
    /\ lastSent.path = "live"
    /\ isConnected
    /\ Fetching = {}
    /\ messages[Len(messages)].role = "user"
\* C16: on the stream_end of the active stream, the Turn with that id takes the
\* accumulated text, the signal's sources and intent, and has its accumulating
\* flag cleared; no other Turn changes; the stream is no longer active; a
\* conversation identifier carried by the signal is stored; the input is
\* enabled again.
C16_StreamEndFinalizes ==
    [][\A s \in Slots, d \in StreamEnds :
          (isStreaming /\ d.message_id = currentStreamId /\ SocketMessage(s, d))
          => LET k == FindIndex(d.message_id)
             IN /\ k # 0
                /\ messages' = [messages EXCEPT ![k] =
                        [id |-> d.message_id, role |-> "assistant",
                         content |-> currentStreamContent, sources |-> d.sources,
                         intent |-> d.intent, isStreaming |-> FALSE]]
                /\ ~isStreaming'
                /\ ~inputDisabled'
                /\ d.conversation_id # "" => conversationId' = d.conversation_id]_vars

\* C16 witness: after start m1, chunks "He" and "llo" and the end carrying
\* sources [], intent faq and conversation c1, in answer to a submission sent
\* over the transport: the Turn of the example, the controller idle again.
C16_HelloFinalized ==
    /\ \E k \in 1..Len(messages) :
          messages[k] = [id |-> "m1", role |-> "assistant", content |-> Hello,
                         sources |-> "[]", intent |-> "faq", isStreaming |-> FALSE]
    /\ currentStreamId = "m1"
    /\ currentStreamContent = Hello
    /\ lastSent.path = "live"
    /\ ~isStreaming
    /\ ~inputDisabled
    /\ conversationId = "c1"
\* C17: an error signal received while a stream is active appends no Turn: the
\* streamed Turn takes the error text as its content and has its accumulating
\* flag cleared, the stream is no longer active and the input is enabled again.
C17_ErrorReplacesStreamedTurn ==
    [][\A s \in Slots, d \in Inbound :
          (/\ d.type = "error"
           /\ isStreaming
           /\ FindIndex(currentStreamId) # 0
           /\ SocketMessage(s, d))
          => LET k == FindIndex(currentStreamId)
             IN /\ Len(messages') = Len(messages)
                /\ messages'[k].content = d.message
                /\ ~messages'[k].isStreaming
                /\ ~isStreaming'
                /\ ~inputDisabled']_vars
\* C18: a fallback request that fails, by a network error or by a non-success
\* response whatever its body, appends exactly one assistant Turn holding the
\* apology text, leaves the accumulating Turns as they were, issues no further
\* request and enables the input again.
C18_FallbackFailureApologizes ==
    [][\A r \in RestSlots :
          (RestFailure(r) \/ RestBadBody(r))
          => /\ messages' = Append(messages, Turn(LocalId, "assistant", ApologyText, FALSE))
             /\ rest'[r].pc = "idle"
             /\ Fetching' = Fetching \ {r}
             /\ ~inputDisabled']_vars
\* C19: a successful fallback response with content c and conversation
\* identifier k appends exactly one assistant Turn and stores k; the reveal
\* appends none; the tick that ends the reveal leaves the Turn with the reply's
\* id holding exactly c with its accumulating flag cleared; and every reveal
\* ends.
C19_FallbackReplyDelivered ==
    /\ [][/\ \A r \in RestSlots, data \in RestReplies :
               RestResponse(r, data) =>
                   /\ Len(messages') = Len(messages) + 1
                   /\ messages'[Len(messages')].role = "assistant"
                   /\ messages'[Len(messages')].id = rest'[r].msgId
                   /\ SubSeq(messages', 1, Len(messages)) = messages
                   /\ rest'[r].fullText = data.content
                   /\ conversationId' = data.conversation_id
          /\ \A r \in RestSlots :
               (rest[r].pc = "revealing" /\ rest'[r] # rest[r]) =>
                   /\ Len(messages') = Len(messages)
                   /\ rest'[r].pc \in {"revealing", "idle"}
                   /\ rest'[r].pc = "idle" =>
                        LET k == FindIndex(rest[r].msgId)
                        IN /\ k # 0
                           /\ messages'[k].content = rest[r].fullText
                           /\ ~messages'[k].isStreaming]_vars
    /\ \A r \in RestSlots : (rest[r].pc = "revealing") ~> (rest[r].pc = "idle")

\* C19 witness: the scenario of the spec, "hi" submitted with the transport not
\* open and answered {conversation_id "c1", content "ok", sources [], intent
\* faq}: one assistant Turn holds "ok", finalized, and "c1" is stored.
C19_OkDelivered ==
    /\ lastSent.path = "rest"
    /\ conversationId = "c1"
    /\ \A r \in RestSlots : rest[r].pc = "idle"
    /\ Len(messages) >= 2
    /\ messages[Len(messages) - 1].role = "user"
    /\ messages[Len(messages) - 1].content = Hi
    /\ messages[Len(messages)].role = "assistant"
    /\ messages[Len(messages)].content = Ok
    /\ messages[Len(messages)].sources = "[]"
    /\ messages[Len(messages)].intent = "faq"
    /\ ~messages[Len(messages)].isStreaming
    /\ Accumulating = {}
\* C20: the fallback path shows the event shape of the live path, where a
\* non-empty reply reaches the Turn through at least one content update between
\* the start and the finalize: the tick that finalizes a non-empty reply comes
\* after at least one tick that revealed a prefix of it.
C20_UpdateBeforeFinalize ==
    [][\A r \in RestSlots :
          (/\ rest[r].pc = "revealing"
           /\ rest[r].fullText # <<>>
           /\ rest'[r].pc = "idle")
          => rest[r].i > 0]_vars
\* C21: a payload that cannot be parsed or whose type is unknown is dropped: no
\* Turn is created or changed, the stream state, the conversation identifier
\* and the input-enabled state stay as they are, and the socket stays open with
\* its handler, so that later signals are processed.
C21_NoiseDropped ==
    [][\A s \in Slots, payload \in NoisePayloads :
          SocketNoise(s, payload)
          => /\ UNCHANGED <<messages, conversationId, isStreaming, currentStreamId,
                            currentStreamContent, inputDisabled>>
             /\ UNCHANGED <<sock, wsRef, wsClient>>]_vars

\* C21 witness: a payload was dropped in the middle of stream m1, and the
\* chunks and the stream_end that followed were processed.
C21_StreamSurvivesNoise ==
    /\ noise = "streaming"
    /\ Len(messages) = 2
    /\ messages[2] = [id |-> "m1", role |-> "assistant", content |-> Hello,
                      sources |-> "[]", intent |-> "faq", isStreaming |-> FALSE]
    /\ ~isStreaming
\* C22: an open, a close (a failed attempt included) and the firing of the
\* reconnect timer change no Turn, neither the stream state, nor the
\* conversation identifier, nor the input-enabled state, nor a fallback request
\* in flight: a live submission whose socket closes stays pending.
C22_TransportLeavesConversation ==
    [][((\E s \in Slots : SocketOpen(s) \/ SocketClose(s)) \/ ReconnectFire)
       => UNCHANGED <<messages, isStreaming, currentStreamId, currentStreamContent,
                      conversationId, inputDisabled, rest>>]_vars

\* C22 witness: a submission went over the transport, the stream it started
\* was cut by a close, and the reconnect is pending: the Turns, the active
\* stream and the disabled input are as the close found them.
C22_ClosedMidStream ==
    /\ lastSent.path = "live"
    /\ \A s \in Slots : sock[s] = "CLOSED"
    /\ reconnectTimeout # 0
    /\ disconnected = "no"
    /\ inputDisabled
    /\ isStreaming
    /\ Len(messages) = 3
    /\ messages[2].role = "user"
    /\ messages[3].isStreaming
\* C23: a keep-alive interval runs only while the connection is open and no
\* shutdown was requested: it is started by the open and stopped by the close
\* and by disconnect(); and a ping goes on the wire only from a state in which
\* the connection is open and no shutdown was requested.
C23_KeepAliveOnlyWhileOpen ==
    /\ []((pingInterval \/ orphanPings > 0) => (isConnected /\ disconnected = "no"))
    /\ [][/\ (\E s \in Slots : ObservedSocketOpen(s)) => pingInterval'
          /\ (\E s \in Slots : SocketClose(s)) => ~pingInterval'
          /\ destroy => ~pingInterval'
          /\ pingsSent' # pingsSent => (isConnected /\ disconnected = "no")]_vars

\* C23 witness: pings went out while the connection was open, and disconnect()
\* has stopped the interval while the socket is still closing.
C23_StoppedByDisconnect ==
    /\ pingsSent > 0
    /\ disconnected = "yes"
    /\ ~pingInterval
    /\ \E s \in Slots : sock[s] = "CLOSING"
\* C24: no Turn is ever removed, and a Turn whose accumulating flag is clear
\* keeps its content, sources and intent whatever arrives or is submitted
\* later.
C24_FinalizedTurnsFrozen ==
    [][/\ Len(messages') >= Len(messages)
       /\ \A k \in 1..Len(messages) :
             ~messages[k].isStreaming =>
                /\ messages'[k].content = messages[k].content
                /\ messages'[k].sources = messages[k].sources
                /\ messages'[k].intent = messages[k].intent]_vars
\* A conversation identifier is stored: neither the initial empty text nor
\* undefined.
Stored == conversationId \notin {"", "undefined"}

\* C25: once a conversation identifier is stored, no step leaves the widget
\* without one, and every accepted submission carries the stored identifier on
\* whichever path it takes.
C25_ConversationIdKept ==
    [][/\ Stored => Stored'
       /\ \A typed \in Typed :
             (sendMessage(typed) /\ messages' # messages)
             => lastSent'.conv = conversationId]_vars
\* C26: during a live stream, every stream_chunk of the stream emits exactly
\* one content update for the stream's Turn, and the update shows the
\* concatenation of the stream's chunks received so far, this one included.
C26_UpdateShowsOwnChunks ==
    [][\A s \in Slots, d \in Inbound :
          (/\ d.type = "stream_chunk"
           /\ isStreaming
           /\ d.message_id = currentStreamId
           /\ ObservedSocketMessage(s, d))
          => updateStreamingMessage(d.message_id, currentStreamContent')
               = <<[id |-> currentStreamId, shown |-> ownChunks \o d.content]>>]_vars
\* The fallback requests awaited or being revealed.
InProgress == {r \in RestSlots : rest[r].pc \in {"fetching", "revealing"}}

\* C27: while a fallback request is awaited or its reply is being revealed, the
\* input stays disabled, whatever arrives over the socket in the meantime.
C27_DisabledWhileInProgress == InProgress # {} => inputDisabled
\* C28: once destroy() has been called, at whatever point of the widget's life,
\* the bootstrap still pending included, no socket is connecting or open and
\* neither a reconnect timer nor a keep-alive interval runs.
C28_NothingOpensAfterDestroy ==
    destroyed =>
        /\ \A s \in Slots : sock[s] \in {"CLOSING", "CLOSED"}
        /\ reconnectTimeout = 0
        /\ ~pingInterval
\* The most ticks a reveal of a text of length L may take: ceil(L / 3), and one
\* for the empty text.
MaxTicks(L) == IF L = 0 THEN 1 ELSE (L + 2) \div 3

\* C29: every tick of a reveal adds 3 to 8 characters to the revealed length;
\* a tick that leaves the length short of the full text shows a strict prefix
\* and changes no Turn; the first tick that reaches the length of the text
\* finalizes the Turn with the full text, ends the interval and enables the
\* input, no later than tick ceil(L / 3); and every reveal ends.
C29_RevealTerminates ==
    /\ [][\A r \in RestSlots :
            (rest[r].pc = "revealing" /\ rest'[r] # rest[r]) =>
                LET L == Len(rest[r].fullText)
                IN IF rest'[r].pc = "revealing"
                   THEN /\ rest'[r].i - rest[r].i \in MinChunk..MaxChunk
                        /\ rest'[r].i < L
                        /\ rest'[r].ticks = rest[r].ticks + 1
                        /\ UNCHANGED <<messages, inputDisabled>>
                   ELSE /\ rest'[r].pc = "idle"
                        /\ rest[r].i < L \/ (L = 0 /\ rest[r].ticks = 0)
                        /\ rest[r].i + MaxChunk >= L
                        /\ rest[r].ticks + 1 <= MaxTicks(L)
                        /\ messages'[FindIndex(rest[r].msgId)].content = rest[r].fullText
                        /\ ~messages'[FindIndex(rest[r].msgId)].isStreaming
                        /\ ~inputDisabled']_vars
    /\ \A r \in RestSlots : (rest[r].pc = "revealing") ~> (rest[r].pc # "revealing")

\* C29 witness: the reveal of "HelloHello" after three ticks of 3 characters:
\* a strict prefix shown, the Turn still accumulating, one tick to go.
C29_ThreeTicksIn ==
    \E r \in RestSlots :
        /\ rest[r].pc = "revealing"
        /\ rest[r].fullText = Hello \o Hello
        /\ rest[r].i = 9
        /\ rest[r].ticks = 3
        /\ FindIndex(rest[r].msgId) # 0
        /\ messages[FindIndex(rest[r].msgId)].isStreaming
        /\ messages[FindIndex(rest[r].msgId)].content = <<>>

=============================================================================
